---- MODULE Spec2Model ----
(***************************************************************************)
(* A model of server.py, the MySQL gateway: the bearer-token gate          *)
(* (_require_auth), the connection factory (_connect), the eleven tool     *)
(* handlers, and the SQL text the structured handlers generate.            *)
(*                                                                         *)
(* Encodings.  A Python str is a sequence of one-character fragments       *)
(* (keywords of generated SQL are single fragments).  Optional[T] is a     *)
(* sequence of length 0 (None) or 1 (<<v>>).  A dict is a function from    *)
(* its keys; a dict whose order matters (insert_row's data) is a sequence  *)
(* of <<key, value>> pairs in insertion order.                             *)
(***************************************************************************)
EXTENDS Integers, Sequences, FiniteSets, TLC

VARIABLES
  API_KEY,            \* os.getenv("API_KEY"): Optional[str]
  DEFAULT_DB,         \* os.getenv("MYSQL_DATABASE"): Optional[str]
  MYSQL_AUTH_PLUGIN,  \* os.getenv("MYSQL_AUTH_PLUGIN"): Optional[str]
  calls,              \* the in-flight tool calls, one record per call slot
  conns,              \* every connection mysql.connector.connect returned, by id
  probe               \* the argument/result pair of a helper applied on its own

vars == <<API_KEY, DEFAULT_DB, MYSQL_AUTH_PLUGIN, calls, conns, probe>>

(***************************************************************************)
(* Bounds                                                                  *)
(***************************************************************************)
NCalls == 2        \* concurrently served calls
MaxParams == 2     \* parameter tuples of one execute_many call
MaxIdLen == 2      \* characters of a caller-supplied identifier
MaxCols == 2       \* columns of an insert_row record
MaxOpens == 2      \* connections opened when _connect is applied on its own

(***************************************************************************)
(* Python values                                                           *)
(***************************************************************************)
None == <<>>
Some(v) == <<v>>

\* bool(x) of an Optional[str] or Optional[dict]: None, "" and {} are falsy
\* (an empty str and an empty dict are both the function of empty domain).
Truthy(o) == o /= None /\ DOMAIN o[1] /= {}

\* Python's (a or b): a if a is truthy, else b.
PyOr(a, b) == IF Truthy(a) THEN a ELSE b

Whitespace == {" ", "\t"}

\* str.lower() on one character (the letters the model uses)
LowerChar(ch) ==
  CASE ch = "B" -> "b" [] ch = "E" -> "e" [] ch = "A" -> "a"
    [] ch = "R" -> "r" [] ch = "S" -> "s" [] ch = "T" -> "t"
    [] OTHER -> ch

Lower(s) == [i \in 1..Len(s) |-> LowerChar(s[i])]

StartsWith(s, p) == Len(s) >= Len(p) /\ SubSeq(s, 1, Len(p)) = p

\* s.split(" ", 1)[1]: what follows the first space (s holds one)
RECURSIVE AfterFirstSpace(_)
AfterFirstSpace(s) ==
  IF s = <<>> THEN <<>>
  ELSE IF Head(s) = " " THEN Tail(s) ELSE AfterFirstSpace(Tail(s))

RECURSIVE LStrip(_)
LStrip(s) == IF s /= <<>> /\ Head(s) \in Whitespace THEN LStrip(Tail(s)) ELSE s

RECURSIVE RStrip(_)
RStrip(s) ==
  IF s /= <<>> /\ s[Len(s)] \in Whitespace THEN RStrip(SubSeq(s, 1, Len(s) - 1)) ELSE s

\* str.strip()
Strip(s) == RStrip(LStrip(s))

\* The backtick character (the lexer of TLA+ admits none in a string literal).
Backtick == "BACKTICK"

\* s.replace(Backtick, "")
RECURSIVE StripBackticks(_)
StripBackticks(s) ==
  IF s = <<>> THEN <<>>
  ELSE IF Head(s) = Backtick THEN StripBackticks(Tail(s))
       ELSE <<Head(s)>> \o StripBackticks(Tail(s))

RECURSIVE Join(_, _)
\* sep.join(parts)
Join(parts, sep) ==
  IF parts = <<>> THEN <<>>
  ELSE IF Len(parts) = 1 THEN parts[1]
       ELSE parts[1] \o sep \o Join(Tail(parts), sep)

(***************************************************************************)
(* _require_auth                                                           *)
(***************************************************************************)
BearerPrefix == <<"b", "e", "a", "r", "e", "r", " ">>

\* dict.get(k)
Get(h, k) == IF k \in DOMAIN h THEN Some(h[k]) ELSE None

\* lines 60-61: ctx.request_headers, else the headers of ctx.request_context.request
CtxHeaders(ctx) ==
  IF Truthy(ctx.request_headers) THEN ctx.request_headers
  ELSE IF ctx.request = None THEN None
       ELSE ctx.request[1].headers

\* lines 57-65: the authorization header's value, under either spelling
HeaderToken(ctx) ==
  LET headers == CtxHeaders(ctx) IN
  IF Truthy(headers)
  THEN PyOr(Get(headers[1], "authorization"), Get(headers[1], "Authorization"))
  ELSE None

\* a variant that takes the scheme word in this one spelling only
TokenMatchesCaseSensitive(token, key) ==
  /\ StartsWith(token, <<"B", "e", "a", "r", "e", "r", " ">>)
  /\ Strip(AfterFirstSpace(token)) = key

\* line 66: the token carries the key
TokenMatches(token, key) ==
  /\ StartsWith(Lower(token), BearerPrefix)
  /\ Strip(AfterFirstSpace(token)) = key

\* lines 53-67: "Allow" when _require_auth returns, "Deny" when it raises PermissionError
RequireAuth(ctx) ==
  IF ~Truthy(API_KEY) THEN "Allow"
  ELSE LET token == HeaderToken(ctx) IN
       IF ~Truthy(token) \/ ~TokenMatches(token[1], API_KEY[1])
       THEN "Deny" ELSE "Allow"

(***************************************************************************)
(* _connect                                                                *)
(***************************************************************************)
NativePassword == <<"mysql_native_password">>

\* a variant that prefers the configured default to the override
ConnectCfgDefaultFirst(database) ==
  [autocommit |-> TRUE,
   database |-> PyOr(DEFAULT_DB, database),
   auth_plugin |-> PyOr(MYSQL_AUTH_PLUGIN, Some(NativePassword))]

\* lines 42-50: the keyword arguments handed to mysql.connector.connect
ConnectCfg(database) ==
  [autocommit |-> TRUE,
   database |-> PyOr(database, DEFAULT_DB),
   auth_plugin |-> PyOr(MYSQL_AUTH_PLUGIN, Some(NativePassword))]

(***************************************************************************)
(* The SQL text the structured handlers generate                           *)
(***************************************************************************)
\* a variant that quotes the identifier as supplied
QuotedRaw(ident) == <<Backtick>> \o ident \o <<Backtick>>

\* the identifier between backticks, its own backticks removed (lines 104, 139, 148, 167, 176, 178)
Quoted(ident) == <<Backtick>> \o StripBackticks(ident) \o <<Backtick>>

\* line 104
DescribeSql(table) == <<"DESCRIBE ">> \o Quoted(table)

\* line 139
CreateDatabaseSql(name) == <<"CREATE DATABASE ">> \o Quoted(name)

\* line 148
DropDatabaseSql(name) == <<"DROP DATABASE ">> \o Quoted(name)

\* line 167
DropTableSql(table) == <<"DROP TABLE ">> \o Quoted(table)

\* line 176: the quoted column list, in the order of data.keys()
InsertCols(data) == Join([i \in 1..Len(data) |-> Quoted(data[i][1])], <<", ">>)

\* line 177: one placeholder per entry of data
InsertPlaceholders(data) == Join([i \in 1..Len(data) |-> <<"%s">>], <<", ">>)

\* line 178
InsertSql(table, data) ==
  <<"INSERT INTO ">> \o Quoted(table) \o <<" (">> \o InsertCols(data)
    \o <<") VALUES (">> \o InsertPlaceholders(data) \o <<")">>

\* a variant that binds the values last column first
InsertParamsReversed(data) == [i \in 1..Len(data) |-> data[Len(data) + 1 - i][2]]

\* line 179: list(data.values())
InsertParams(data) == [i \in 1..Len(data) |-> data[i][2]]

(***************************************************************************)
(* The operation catalog                                                   *)
(***************************************************************************)
Ops ==
  {"ping", "list_databases", "list_tables", "describe_table", "run_sql",
   "create_database", "drop_database", "create_table", "drop_table",
   "insert_row", "execute_many"}

\* the handlers with a `database` parameter; the others call _connect(None)
TakesDatabase(op) ==
  op \in {"list_tables", "describe_table", "run_sql", "create_table",
          "drop_table", "insert_row", "execute_many"}

\* the handlers that call cur.fetchall()
Fetches(op) == op \in {"list_databases", "list_tables", "describe_table", "run_sql"}

\* the statement a handler hands to cur.execute / cur.executemany, and its parameters
Statement(op, arg) ==
  CASE op = "list_databases" -> [sql |-> <<"SHOW DATABASES">>, params |-> <<>>]
    [] op = "list_tables" -> [sql |-> <<"SHOW TABLES">>, params |-> <<>>]
    [] op = "describe_table" -> [sql |-> DescribeSql(arg.table), params |-> <<>>]
    [] op = "run_sql" -> [sql |-> arg.sql, params |-> <<>>]
    [] op = "create_database" -> [sql |-> CreateDatabaseSql(arg.name), params |-> <<>>]
    [] op = "drop_database" -> [sql |-> DropDatabaseSql(arg.name), params |-> <<>>]
    [] op = "create_table" -> [sql |-> arg.ddl_sql, params |-> <<>>]
    [] op = "drop_table" -> [sql |-> DropTableSql(arg.table), params |-> <<>>]
    [] op = "insert_row" ->
         [sql |-> InsertSql(arg.table, arg.data), params |-> InsertParams(arg.data)]
    [] op = "execute_many" -> [sql |-> arg.sql, params |-> arg.params]

(***************************************************************************)
(* The driver: what mysql.connector does at the calls the handlers make    *)
(***************************************************************************)
\* con.cursor(): no statement executed yet
NewCursor == [rowcount |-> -1, lastrowid |-> None, unread |-> None]

RowSets == {<<>>, <<<<"b">>, <<"a">>>>}

\* what the engine reports for a statement with a row set ...
RowSetReports == {[rowcount |-> -1, lastrowid |-> None, unread |-> Some(rows)] : rows \in RowSets}

\* ... and for one without: the affected-row count and the generated identifier
CommandReports ==
  {[rowcount |-> 0, lastrowid |-> Some(0), unread |-> None],
   [rowcount |-> 1, lastrowid |-> Some(7), unread |-> None]}

Select == <<"SELECT x FROM t">>
Alter == <<"ALTER TABLE t ADD y INT">>

\* the cursor states a successful cur.execute can leave (lines 82, 93, 104, 116, ...)
Reports(op, arg) ==
  CASE op \in {"list_databases", "list_tables", "describe_table"} -> RowSetReports
    [] op = "run_sql" -> IF arg.sql = Select THEN RowSetReports ELSE CommandReports
    [] OTHER -> CommandReports

\* cur.fetchall(): the rows; without a result set the driver raises InterfaceError
\* or, in its later versions, returns []; and the fetch of a row set may fail.
FetchOutcomes(cur) ==
  IF cur.unread = None
  THEN {[err |-> "InterfaceError", rows |-> <<>>], [err |-> "", rows |-> <<>>]}
  ELSE {[err |-> "", rows |-> cur.unread[1]], [err |-> "OperationalError", rows |-> <<>>]}

(***************************************************************************)
(* The handlers                                                            *)
(***************************************************************************)
NoCtx == [request_headers |-> None, request |-> None]

IdleCall ==
  [pc |-> "idle", op |-> "", ctx |-> NoCtx, database |-> None, arg |-> <<>>,
   opens |-> 0, con |-> 0, cur |-> NewCursor, done |-> 0, rowcnt |-> 0,
   affected |-> <<>>, report |-> NewCursor, executed |-> FALSE, stmtOk |-> FALSE,
   exc |-> "",
   curCloseRaised |-> FALSE, result |-> <<>>, outcome |-> ""]

\* the call fails with err / returns res
Raise(call, err) == [call EXCEPT !.pc = "done", !.outcome = err]
Return(call, res) == [call EXCEPT !.pc = "done", !.outcome = "ok", !.result = res]

\* a variant without the except clause
CaughtNothing(err) == FALSE

\* line 124: the fetch errors run_sql turns into rows = []
CaughtByRunSql(err) == err = "InterfaceError"

\* lines 128-132: only run_sql wraps its work in try/finally and swallows what
\* the two closes raise
Suppressed(op) == op = "run_sql"

\* an error raised at execute or fetch: run_sql goes to its finally block with the
\* exception pending, every other handler propagates it at once
Failed(call, err) ==
  IF Suppressed(call.op) THEN [call EXCEPT !.exc = err, !.pc = "closecur"]
  ELSE Raise(call, err)

\* after the last statement of the handler's cleanup
Finished(call) ==
  IF call.exc /= "" THEN Raise(call, call.exc) ELSE Return(call, call.result)

\* a variant of a handler that omits the authorization check
EnteredConnectFirst(op, ctx, db, arg) ==
  [IdleCall EXCEPT !.op = op, !.ctx = ctx, !.database = db, !.arg = arg, !.pc = "connect"]

\* the handler's first lines: await _require_auth(ctx), which does not suspend
Entered(op, ctx, db, arg) ==
  LET call == [IdleCall EXCEPT !.op = op, !.ctx = ctx, !.database = db, !.arg = arg] IN
  IF RequireAuth(ctx) = "Deny" THEN Raise(call, "Unauthorized")
  ELSE IF op = "ping" THEN Return(call, <<"pong">>)
  ELSE [call EXCEPT !.pc = "connect"]

\* a variant that hands every call the one pooled connection
ConnectionIdPooled(c) == 1

\* line 51: mysql.connector.connect returns a connection of its own on every call
ConnectionId(c) == Len(conns) + 1

\* what the handler holds once cur.execute has returned
ResultAfterExecute(op, arg, cur) ==
  CASE op = "run_sql" -> [rowcount |-> cur.rowcount, lastrowid |-> cur.lastrowid]
    [] op = "create_database" -> <<"created database ">> \o arg.name
    [] op = "drop_database" -> <<"dropped database ">> \o arg.name
    [] op = "create_table" -> <<"table created">>
    [] op = "drop_table" -> <<"dropped table ">> \o arg.table
    [] op = "insert_row" -> [lastrowid |-> cur.lastrowid]
    [] OTHER -> <<>>

\* what the handler holds once the rows are fetched (lines 83, 94, 105, 123, 126)
ResultAfterFetch(op, result, data) ==
  CASE op \in {"list_databases", "list_tables"} -> [i \in 1..Len(data) |-> data[i][1]]
    [] op = "run_sql" ->
         [rowcount |-> result.rowcount, lastrowid |-> result.lastrowid, rows |-> data]
    [] OTHER -> data

\* the statement the connection is handed, and who handed it
Sent(c, sql, params) ==
  [conns EXCEPT ![calls[c].con].stmts =
     Append(@, [sql |-> sql, params |-> params, by |-> c, open |-> conns[calls[c].con].open])]

config == <<API_KEY, DEFAULT_DB, MYSQL_AUTH_PLUGIN>>

\* con = _connect(database); cur = con.cursor()
Connect(c) ==
  /\ calls[c].pc = "connect"
  /\ \/ LET id == ConnectionId(c) IN
        /\ conns' = IF id > Len(conns)
                    THEN Append(conns, [owner |-> c, cfg |-> ConnectCfg(calls[c].database),
                                        open |-> TRUE, closeCalls |-> 0, closeRaised |-> FALSE,
                                        stmts |-> <<>>])
                    ELSE conns
        /\ calls' = [calls EXCEPT ![c].pc = "execute", ![c].opens = @ + 1,
                                  ![c].con = id, ![c].cur = NewCursor]
     \/ /\ calls' = [calls EXCEPT ![c] = Raise([@ EXCEPT !.opens = @ + 1], "ConnectionError")]
        /\ UNCHANGED conns
  /\ UNCHANGED <<config, probe>>

\* cur.execute(sql) or cur.execute(sql, params)
Execute(c) ==
  LET call == calls[c]
      st == Statement(call.op, call.arg) IN
  /\ call.pc = "execute"
  /\ call.op /= "execute_many"
  /\ conns' = Sent(c, st.sql, st.params)
  /\ \/ \E r \in Reports(call.op, call.arg) :
          calls' = [calls EXCEPT ![c] =
            [call EXCEPT !.cur = r, !.report = r, !.executed = TRUE,
                         !.stmtOk = ~Fetches(call.op),
                         !.result = ResultAfterExecute(call.op, call.arg, r),
                         !.pc = IF Fetches(call.op) THEN "fetch" ELSE "closecur"]]
     \/ calls' = [calls EXCEPT ![c] = Failed(call, "ExecutionError")]
  /\ UNCHANGED <<config, probe>>

\* cur.executemany(sql, params); rc = cur.rowcount.  The driver returns at once on
\* an empty params, leaving cur.rowcount as con.cursor() set it; otherwise it
\* executes the statement for one tuple after the other, adds up the rowcounts
\* and sets cur.rowcount to the sum after the last.  (An INSERT ... VALUES
\* template the driver sends as one multi-row statement, with the same total;
\* the handlers' inputs here hold none.)
ExecuteMany(c) ==
  LET call == calls[c]
      params == call.arg.params
      k == call.done + 1 IN
  /\ call.pc = "execute"
  /\ call.op = "execute_many"
  /\ \/ /\ params = <<>>
        /\ calls' = [calls EXCEPT ![c] =
             [call EXCEPT !.stmtOk = TRUE, !.result = [rowcount |-> call.cur.rowcount],
                          !.pc = "closecur"]]
        /\ UNCHANGED conns
     \/ /\ params /= <<>>
        /\ conns' = Sent(c, call.arg.sql, params[k])
        /\ \E n \in {0, 1} :
             LET sum == call.rowcnt + n IN
             calls' = [calls EXCEPT ![c] =
               IF k < Len(params)
               THEN [call EXCEPT !.done = k, !.rowcnt = sum, !.affected = Append(@, n),
                                 !.cur = [@ EXCEPT !.rowcount = n]]
               ELSE [call EXCEPT !.done = k, !.rowcnt = sum, !.affected = Append(@, n),
                                 !.cur = [@ EXCEPT !.rowcount = sum], !.stmtOk = TRUE,
                                 !.result = [rowcount |-> sum], !.pc = "closecur"]]
     \/ /\ params /= <<>>
        /\ conns' = Sent(c, call.arg.sql, params[k])
        /\ calls' = [calls EXCEPT ![c] = Failed(call, "ExecutionError")]
  /\ UNCHANGED <<config, probe>>

\* cur.fetchall()
Fetch(c) ==
  LET call == calls[c] IN
  /\ call.pc = "fetch"
  /\ \E f \in FetchOutcomes(call.cur) :
       \/ /\ f.err = "" \/ (call.op = "run_sql" /\ CaughtByRunSql(f.err))
          /\ calls' = [calls EXCEPT ![c] =
               [call EXCEPT !.cur = [@ EXCEPT !.unread = None], !.stmtOk = TRUE,
                            !.result = ResultAfterFetch(call.op, @, f.rows),
                            !.pc = "closecur"]]
       \/ /\ f.err /= "" /\ ~(call.op = "run_sql" /\ CaughtByRunSql(f.err))
          /\ calls' = [calls EXCEPT ![c] = Failed(call, f.err)]
  /\ UNCHANGED <<config, conns, probe>>

\* cur.close()
CloseCursor(c) ==
  LET call == calls[c] IN
  /\ call.pc = "closecur"
  /\ \/ calls' = [calls EXCEPT ![c].pc = "closecon"]
     \/ calls' = [calls EXCEPT ![c] =
          LET after == [call EXCEPT !.curCloseRaised = TRUE] IN
          IF Suppressed(call.op) THEN Finished(after)
          ELSE Raise(after, "CursorCloseError")]
  /\ UNCHANGED <<config, conns, probe>>

\* con.close()
CloseConnection(c) ==
  LET call == calls[c] IN
  /\ call.pc = "closecon"
  /\ \/ /\ conns' = [conns EXCEPT ![call.con].closeCalls = @ + 1, ![call.con].open = FALSE]
        /\ calls' = [calls EXCEPT ![c] = Finished(call)]
     \/ /\ conns' = [conns EXCEPT ![call.con].closeCalls = @ + 1,
                                   ![call.con].closeRaised = TRUE]
        /\ calls' = [calls EXCEPT ![c] =
             IF Suppressed(call.op) THEN Finished(call)
             ELSE Raise(call, "ConnectionCloseError")]
  /\ UNCHANGED <<config, probe>>

(***************************************************************************)
(* The calls the transport delivers                                        *)
(***************************************************************************)
Bearer == <<"B", "e", "a", "r", "e", "r">>

\* a context whose request_headers hold one header
CtxWith(name, value) ==
  [request_headers |-> Some([k \in {name} |-> value]), request |-> None]

\* a context of the other transport: the headers sit on request_context.request
CtxRequest(name, value) ==
  [request_headers |-> None, request |-> Some([headers |-> Some([k \in {name} |-> value])])]

CallCredentials ==
  {Bearer \o <<" ", "s">>, <<"b", "e", "a", "r", "e", "r", " ", " ", "s">>,
   Bearer \o <<" ", "x">>, <<"B", "a", "s", "i", "c", " ", "s">>}

CallCtxs == {NoCtx} \cup {CtxWith("authorization", cr) : cr \in CallCredentials}

CallDatabases == {None, Some(<<"x">>)}

CallIdents == {<<"t">>, <<"t", Backtick, "u">>}

ParamTuples == {<<1, 10>>, <<2, 20>>}

ParamSeqs == UNION {[1..n -> ParamTuples] : n \in 0..MaxParams}

Update == <<"UPDATE t SET x=%s WHERE id=%s">>

\* the arguments of a call of op, the database parameter apart
ArgsOf(op) ==
  CASE op \in {"describe_table", "drop_table"} -> {[table |-> t] : t \in CallIdents}
    [] op \in {"create_database", "drop_database"} -> {[name |-> t] : t \in CallIdents}
    [] op = "run_sql" -> {[sql |-> Select], [sql |-> Alter]}
    [] op = "create_table" -> {[ddl_sql |-> <<"CREATE TABLE t (x INT)">>]}
    [] op = "insert_row" ->
         {[table |-> <<"t">>, data |-> <<<<<<"n">>, "v1">>, <<<<"a">>, "v2">>>>]}
    [] op = "execute_many" -> {[sql |-> Update, params |-> ps] : ps \in ParamSeqs}
    [] OTHER -> {<<>>}

\* a call arrives and its handler runs up to its first suspension point
Invoke(c) ==
  /\ calls[c].pc = "idle"
  /\ \E op \in Ops, ctx \in CallCtxs :
       \E db \in IF TakesDatabase(op) THEN CallDatabases ELSE {None}, arg \in ArgsOf(op) :
         calls' = [calls EXCEPT ![c] = Entered(op, ctx, db, arg)]
  /\ UNCHANGED <<config, conns, probe>>

Init ==
  /\ API_KEY \in {None, Some(<<>>), Some(<<"s">>)}
  /\ DEFAULT_DB \in {None, Some(<<"d">>)}
  /\ MYSQL_AUTH_PLUGIN = None
  /\ calls = [c \in {1} |-> IdleCall]
  /\ conns = <<>>
  /\ probe = <<>>

Next ==
  \/ \E c \in DOMAIN calls : Invoke(c)
  \/ \E c \in DOMAIN calls : Connect(c)
  \/ \E c \in DOMAIN calls : Execute(c)
  \/ \E c \in DOMAIN calls : ExecuteMany(c)
  \/ \E c \in DOMAIN calls : Fetch(c)
  \/ \E c \in DOMAIN calls : CloseCursor(c)
  \/ \E c \in DOMAIN calls : CloseConnection(c)

\* one call served on its own: the handlers never yield between their first and
\* last line, so the event loop runs each to its end before the next
Spec == Init /\ [][Next]_vars

(***************************************************************************)
(* Concurrently served calls, suspended at connect, execute and close      *)
(***************************************************************************)
ServedCtxs == {CtxWith("authorization", Bearer \o <<" ", "s">>)}

ServedArgs(op) ==
  CASE op \in {"describe_table", "drop_table"} -> {[table |-> <<"t">>]}
    [] op \in {"create_database", "drop_database"} -> {[name |-> <<"t">>]}
    [] op = "run_sql" -> {[sql |-> Select], [sql |-> Alter]}
    [] op = "create_table" -> {[ddl_sql |-> <<"CREATE TABLE t (x INT)">>]}
    [] op = "insert_row" -> {[table |-> <<"t">>, data |-> <<<<<<"n">>, "v1">>>>]}
    [] op = "execute_many" ->
         {[sql |-> Update, params |-> ps] : ps \in {<<>>, <<<<1, 10>>, <<2, 20>>>>}}
    [] OTHER -> {<<>>}

Serve(c) ==
  /\ calls[c].pc = "idle"
  /\ \E op \in Ops, ctx \in ServedCtxs :
       \E arg \in ServedArgs(op) :
         calls' = [calls EXCEPT ![c] = Entered(op, ctx, None, arg)]
  /\ UNCHANGED <<config, conns, probe>>

InitConc ==
  /\ API_KEY = Some(<<"s">>)
  /\ DEFAULT_DB = None
  /\ MYSQL_AUTH_PLUGIN = None
  /\ calls = [c \in 1..NCalls |-> IdleCall]
  /\ conns = <<>>
  /\ probe = <<>>

NextConc ==
  \/ \E c \in DOMAIN calls : Serve(c)
  \/ \E c \in DOMAIN calls : Connect(c)
  \/ \E c \in DOMAIN calls : Execute(c)
  \/ \E c \in DOMAIN calls : ExecuteMany(c)
  \/ \E c \in DOMAIN calls : Fetch(c)
  \/ \E c \in DOMAIN calls : CloseCursor(c)
  \/ \E c \in DOMAIN calls : CloseConnection(c)

SpecConc == InitConc /\ [][NextConc]_vars

(***************************************************************************)
(* _require_auth on its own, over keys, contexts and credentials           *)
(***************************************************************************)
Schemes ==
  {Bearer, <<"b", "e", "a", "r", "e", "r">>, <<"B", "E", "A", "R", "E", "R">>,
   <<"B", "a", "s", "i", "c">>, <<>>}

Separators == {<<>>, <<" ">>, <<" ", " ">>, <<"\t">>}

TokenTexts == {<<>>, <<"s">>, <<"S">>, <<"s", "t">>, <<"x">>}

Trailers == {<<>>, <<" ">>}

Credentials ==
  {sch \o sep \o tok \o tr :
     sch \in Schemes, sep \in Separators, tok \in TokenTexts, tr \in Trailers}

Keys == {None, Some(<<>>), Some(<<"s">>), Some(<<"s", "t">>), Some(<<" ", "s">>)}

HeaderNames == {"authorization", "Authorization", "x-api-key"}

CtxShapes == {"none", "empty", "request_headers", "request_context"}

\* the context the transport builds around one header
MkCtx(shape, name, value) ==
  CASE shape = "request_headers" -> CtxWith(name, value)
    [] shape = "request_context" -> CtxRequest(name, value)
    [] shape = "empty" -> [request_headers |-> Some(<<>>), request |-> None]
    [] OTHER -> NoCtx

InitAuth ==
  /\ API_KEY \in Keys
  /\ DEFAULT_DB = None
  /\ MYSQL_AUTH_PLUGIN = None
  /\ calls = <<>>
  /\ conns = <<>>
  /\ probe \in [shape : CtxShapes, name : HeaderNames, value : Credentials, decision : {""}]

Authorize ==
  /\ probe.decision = ""
  /\ probe' = [probe EXCEPT !.decision = RequireAuth(MkCtx(probe.shape, probe.name, probe.value))]
  /\ UNCHANGED <<config, calls, conns>>

NextAuth == Authorize

SpecAuth == InitAuth /\ [][NextAuth]_vars

(***************************************************************************)
(* _connect on its own, over overrides, defaults and plugins               *)
(***************************************************************************)
SchemaNames == {None, Some(<<>>), Some(<<"x">>), Some(<<"d">>)}

InitConnect ==
  /\ API_KEY = None
  /\ DEFAULT_DB \in SchemaNames
  /\ MYSQL_AUTH_PLUGIN \in {None, Some(<<>>), Some(<<"caching_sha2_password">>)}
  /\ calls = <<>>
  /\ conns = <<>>
  /\ probe = <<>>

\* _connect(database): the override and the arguments it resolved to
Open ==
  /\ Len(probe) < MaxOpens
  /\ \E database \in SchemaNames :
       probe' = Append(probe, [database |-> database, cfg |-> ConnectCfg(database)])
  /\ UNCHANGED <<config, calls, conns>>

NextConnect == Open

SpecConnect == InitConnect /\ [][NextConnect]_vars

(***************************************************************************)
(* The generated SQL on its own, over identifiers and records              *)
(***************************************************************************)
IdentChars == {"a", Backtick}

Idents == UNION {[1..n -> IdentChars] : n \in 0..MaxIdLen}

Values == {"v1", "v2"}

\* the records of at most MaxCols columns: distinct keys, in insertion order
Records ==
  {d \in UNION {[1..n -> Idents \X Values] : n \in 0..MaxCols} :
     \A i, j \in 1..Len(d) : i /= j => d[i][1] /= d[j][1]}

StructuredArgs ==
  [op : {"describe_table", "drop_table"}, arg : [table : Idents]]
    \cup [op : {"create_database", "drop_database"}, arg : [name : Idents]]
    \cup [op : {"insert_row"}, arg : [table : Idents, data : Records]]

InitSql ==
  /\ API_KEY = None
  /\ DEFAULT_DB = None
  /\ MYSQL_AUTH_PLUGIN = None
  /\ calls = <<>>
  /\ conns = <<>>
  /\ \E a \in StructuredArgs : probe = [op |-> a.op, arg |-> a.arg, st |-> None]

\* the statement and parameters the handler hands to cur.execute
Generate ==
  /\ probe.st = None
  /\ probe' = [probe EXCEPT !.st = Some(Statement(probe.op, probe.arg))]
  /\ UNCHANGED <<config, calls, conns>>

NextSql == Generate

SpecSql == InitSql /\ [][NextSql]_vars

(***************************************************************************)
(* Claims                                                                  *)
(***************************************************************************)
\* a secret is configured: API_KEY is set and not empty
KeySet == API_KEY /= None /\ Len(API_KEY[1]) > 0

BearerLetters ==
  <<{"b", "B"}, {"e", "E"}, {"a", "A"}, {"r", "R"}, {"e", "E"}, {"r", "R"}>>

\* cr is the word bearer in any letter case, a space, and the key between runs of
\* whitespace
CarriesKey(cr, key) ==
  /\ cr /= None
  /\ key /= <<>> /\ key[1] \notin Whitespace /\ key[Len(key)] \notin Whitespace
  /\ LET s == cr[1] IN
     \E i, j \in 0..Len(s) :
       /\ Len(s) = 7 + i + Len(key) + j
       /\ \A k \in 1..6 : s[k] \in BearerLetters[k]
       /\ s[7] = " "
       /\ \A k \in 8..(7 + i) : s[k] \in Whitespace
       /\ SubSeq(s, 8 + i, 7 + i + Len(key)) = key
       /\ \A k \in (8 + i + Len(key))..Len(s) : s[k] \in Whitespace

\* the credential a call presents: the value of its authorization header
CtxCredential(ctx) ==
  IF ctx.request_headers /= None /\ "authorization" \in DOMAIN ctx.request_headers[1]
  THEN Some(ctx.request_headers[1]["authorization"])
  ELSE None

\* C1: when a secret is configured and the call's credential is absent or does
\* not carry it, the call has failed with Unauthorized at its first step: it made
\* no call to connect and owns no connection; and a call that reached connect
\* was authorized first.
C1_DeniedOpensNothing ==
  \A c \in DOMAIN calls :
    LET call == calls[c] IN
    call.pc /= "idle" =>
      /\ (KeySet /\ ~CarriesKey(CtxCredential(call.ctx), API_KEY[1])) =>
           /\ call.pc = "done" /\ call.outcome = "Unauthorized"
           /\ call.opens = 0 /\ call.con = 0
           /\ \A id \in DOMAIN conns : conns[id].owner /= c
      /\ (call.opens > 0 \/ call.con /= 0) =>
           (~KeySet \/ CarriesKey(CtxCredential(call.ctx), API_KEY[1]))

\* C1's case: a call of a handler that would open a connection was denied
C1_Witness ==
  \E c \in DOMAIN calls :
    /\ calls[c].op = "execute_many" /\ calls[c].outcome = "Unauthorized"
    /\ KeySet /\ CtxCredential(calls[c].ctx) /= None

\* C2: a call that opened a connection and has returned or failed has had close
\* invoked on it exactly once, and the connection is open no longer unless that
\* close itself raised.
C2_ClosedOnEveryExit ==
  \A c \in DOMAIN calls :
    LET call == calls[c] IN
    (call.pc = "done" /\ call.con /= 0) =>
      /\ conns[call.con].closeCalls = 1
      /\ conns[call.con].open => conns[call.con].closeRaised

\* C5: a run_sql call that returned holds rows, rowcount and lastrowid; after a
\* statement with a row set the rows are the engine's, in its order, and
\* lastrowid is None; after one without, rows is empty and rowcount and lastrowid
\* are the engine's; and once such a statement has executed the call returns.
C5_UniformResult ==
  \A c \in DOMAIN calls :
    LET call == calls[c] IN
    (call.op = "run_sql" /\ call.pc = "done") =>
      /\ call.outcome = "ok" =>
           /\ DOMAIN call.result = {"rows", "rowcount", "lastrowid"}
           /\ IF call.report.unread /= None
              THEN /\ call.result.rows = call.report.unread[1]
                   /\ call.result.lastrowid = None
              ELSE /\ call.result.rows = <<>>
                   /\ call.result.rowcount = call.report.rowcount
                   /\ call.result.lastrowid = call.report.lastrowid
      /\ (call.executed /\ call.report.unread = None) => call.outcome = "ok"

\* C5's case: run_sql returned after a statement without a row set
C5_Witness ==
  \E c \in DOMAIN calls :
    /\ calls[c].op = "run_sql" /\ calls[c].outcome = "ok"
    /\ calls[c].arg.sql = Alter /\ calls[c].result.rows = <<>>
    /\ calls[c].result.rowcount = 1

RECURSIVE Sum(_)
Sum(ns) == IF ns = <<>> THEN 0 ELSE Head(ns) + Sum(Tail(ns))

\* C7: an execute_many call that returned has executed its template once per
\* parameter tuple, in order, on its connection, and returns the sum of the
\* affected-row counts (0 for no tuples).
C7_RowcountIsSum ==
  \A c \in DOMAIN calls :
    LET call == calls[c] IN
    (call.op = "execute_many" /\ call.pc = "done" /\ call.outcome = "ok") =>
      /\ Len(conns[call.con].stmts) = Len(call.arg.params)
      /\ \A k \in 1..Len(call.arg.params) :
           /\ conns[call.con].stmts[k].sql = call.arg.sql
           /\ conns[call.con].stmts[k].params = call.arg.params[k]
      /\ call.result.rowcount = Sum(call.affected)

\* C9: a call that opened a connection and is over returned its result if its
\* statement succeeded and failed with the statement's own error if it did not,
\* whatever the closes did; and when closing the cursor raised, close was still
\* invoked on the connection.
C9_CloseNeverChangesOutcome ==
  \A c \in DOMAIN calls :
    LET call == calls[c] IN
    (call.pc = "done" /\ call.con /= 0) =>
      /\ call.stmtOk => call.outcome = "ok"
      /\ ~call.stmtOk => call.outcome \in {"ExecutionError", "OperationalError"}
      /\ call.curCloseRaised => conns[call.con].closeCalls = 1

\* C10: each call opens at most one connection; every statement ran on a
\* connection opened by the call that sent it, while it was open; no two calls
\* hold the same connection; and the configuration is the startup one.
C10_NoSharing ==
  /\ \A c \in DOMAIN calls :
       /\ calls[c].opens <= 1
       /\ calls[c].con /= 0 => conns[calls[c].con].owner = c
       /\ \A d \in DOMAIN calls : (d /= c /\ calls[c].con /= 0) => calls[d].con /= calls[c].con
  /\ \A id \in DOMAIN conns :
       \A k \in DOMAIN conns[id].stmts :
         conns[id].stmts[k].by = conns[id].owner /\ conns[id].stmts[k].open
  /\ API_KEY = Some(<<"s">>) /\ DEFAULT_DB = None /\ MYSQL_AUTH_PLUGIN = None

\* C10's case: two calls in flight at once, each with statements on its own
\* open connection
C10_Witness ==
  \E c, d \in DOMAIN calls :
    /\ c /= d
    /\ calls[c].pc = "execute" /\ calls[d].pc = "closecur"
    /\ calls[c].con /= 0 /\ calls[d].con /= 0
    /\ conns[calls[c].con].stmts /= <<>> /\ conns[calls[d].con].stmts /= <<>>
    /\ conns[calls[c].con].open /\ conns[calls[d].con].open

\* the credential the transport presents in the context it builds
Presented ==
  IF probe.shape \in {"request_headers", "request_context"}
       /\ probe.name \in {"authorization", "Authorization"}
  THEN Some(probe.value) ELSE None

\* C3, as claimed: Allow exactly when no secret is configured, or the credential
\* is present and is the word Bearer, one space and the secret itself.
C3_ExactBearer ==
  probe.decision /= "" =>
    (probe.decision = "Allow" <=>
       (API_KEY = None \/ Presented = Some(Bearer \o <<" ">> \o API_KEY[1])))

\* C3, amended: Allow exactly when the secret is unset or empty, or the
\* credential is the word bearer in any letter case, a space, and the secret
\* between runs of whitespace; Deny for every other pair.
C3_LenientBearer ==
  probe.decision /= "" =>
    /\ probe.decision \in {"Allow", "Deny"}
    /\ probe.decision = "Allow" <=> (~KeySet \/ CarriesKey(Presented, API_KEY[1]))

\* C3's case: a credential that differs from Bearer <secret> in the case of the
\* scheme word and in the whitespace around the token was allowed
C3_Witness ==
  /\ probe.decision = "Allow"
  /\ API_KEY = Some(<<"s", "t">>)
  /\ Presented = Some(<<"B", "E", "A", "R", "E", "R", " ", " ", "s", "t", " ">>)

\* an Optional[str] that names a schema
Names(o) == o /= None /\ Len(o[1]) > 0

\* C6, as claimed: the override whenever one is supplied, the default only when
\* none is, no schema only when neither is set.
C6_OverrideFirst ==
  \A k \in DOMAIN probe :
    LET database == probe[k].database
        used == probe[k].cfg.database IN
    /\ database /= None => used = database
    /\ (database = None /\ DEFAULT_DB /= None) => used = DEFAULT_DB
    /\ used = None <=> (database = None /\ DEFAULT_DB = None)

\* C6, amended: the override whenever a non-empty override is supplied, else the
\* default (an absent or an empty override falls through to it), and a schema is
\* named only when the override or the default names one.
C6_NonEmptyOverrideFirst ==
  \A k \in DOMAIN probe :
    LET database == probe[k].database
        used == probe[k].cfg.database IN
    /\ Names(database) => used = database
    /\ ~Names(database) => used = DEFAULT_DB
    /\ Names(used) => (Names(database) \/ Names(DEFAULT_DB))
    /\ probe[k].cfg.autocommit

\* C6's case: an empty override was supplied and the default was used
C6_Witness ==
  \E k \in DOMAIN probe :
    /\ probe[k].database = Some(<<>>)
    /\ DEFAULT_DB = Some(<<"d">>)
    /\ probe[k].cfg.database = Some(<<"d">>)

\* the places of the backticks in a text, in order
TickPlaces(text) ==
  LET ps == {k \in 1..Len(text) : text[k] = Backtick}
      n == Cardinality(ps) IN
  [j \in 1..n |-> CHOOSE k \in ps : Cardinality({m \in ps : m < k}) = j - 1]

\* what lies between the backticks 2j-1 and 2j of a text
Between(text, j) ==
  LET ts == TickPlaces(text) IN SubSeq(text, ts[2 * j - 1] + 1, ts[2 * j] - 1)

NotBacktick(ch) == ch /= Backtick

\* the identifiers a structured call supplies, in the order its statement lists them
Supplied(op, arg) ==
  CASE op \in {"describe_table", "drop_table"} -> <<arg.table>>
    [] op \in {"create_database", "drop_database"} -> <<arg.name>>
    [] op = "insert_row" -> <<arg.table>> \o [i \in 1..Len(arg.data) |-> arg.data[i][1]]

\* C4: the generated statement holds one pair of quoting backticks per supplied
\* identifier and no other backtick, and between each pair stands the identifier
\* with its backticks removed.
C4_NoBacktickSurvives ==
  probe.st /= None =>
    LET sql == probe.st[1].sql
        ids == Supplied(probe.op, probe.arg) IN
    /\ Len(TickPlaces(sql)) = 2 * Len(ids)
    /\ \A j \in 1..Len(ids) : Between(sql, j) = SelectSeq(ids[j], NotBacktick)

\* C4's case: an identifier with a backtick was embedded in a DROP TABLE statement
C4_Witness ==
  /\ probe.st /= None
  /\ probe.op = "drop_table"
  /\ probe.arg.table = <<Backtick, "a">>

\* how often a fragment occurs in a text
Count(text, frag) == Cardinality({k \in 1..Len(text) : text[k] = frag})

\* C8: the INSERT lists the record's keys in insertion order, holds one
\* placeholder per column and no value, and binds the values in the same order.
C8_ColumnsAndValuesAligned ==
  (probe.st /= None /\ probe.op = "insert_row") =>
    LET sql == probe.st[1].sql
        params == probe.st[1].params
        data == probe.arg.data IN
    /\ Len(TickPlaces(sql)) = 2 * (Len(data) + 1)
    /\ \A i \in 1..Len(data) : Between(sql, i + 1) = SelectSeq(data[i][1], NotBacktick)
    /\ Count(sql, "%s") = Len(data)
    /\ Len(params) = Len(data)
    /\ \A i \in 1..Len(data) : params[i] = data[i][2]
    /\ \A k \in 1..Len(sql) : sql[k] \notin Values

\* C8's case: a record of two columns with different values
C8_Witness ==
  /\ probe.st /= None
  /\ probe.op = "insert_row"
  /\ Len(probe.arg.data) = 2
  /\ probe.arg.data[1][2] = "v2" /\ probe.arg.data[2][2] = "v1"

====
